---- MODULE Spec2Model ----
(***************************************************************************)
(* Model of the file-storage backend: the users / folders / files tables   *)
(* (migrations 002-004), the bearer-token layer (app/utils/security.py)    *)
(* and the request handlers of app/routes/{auth,folders,files}.py.         *)
(*                                                                         *)
(* Optional[int] values are modelled as sequences: None is <<>> and the    *)
(* integer n is <<n>>.  A row is a record; a table is a set of rows.       *)
(***************************************************************************)
EXTENDS Integers, Sequences, FiniteSets, TLC

VARIABLES
    users,            \* table users            (migration 002)
    folders,          \* table folders          (migration 003)
    files,            \* table files            (migration 004)
    sqlite_sequence,  \* AUTOINCREMENT counters of the three tables
    now,              \* the wall clock, in ticks
    issued,           \* the tokens create_access_token has returned so far
    regs,             \* per worker thread: the request it is running, step by step
    response          \* the last HTTP response sent

vars == <<users, folders, files, sqlite_sequence, now, issued, regs, response>>
store == <<users, folders, files, sqlite_sequence>>
\* The database as one value: what a handler reads and what it leaves.
DB == [users |-> users, folders |-> folders, files |-> files,
       sqlite_sequence |-> sqlite_sequence]

None == <<>>
Some(x) == <<x>>

\* ------------------------------------------------------------------ bounds
\* Rows (folders and files together) inserted before the model stops inserting.
MaxRows == 3
\* Accounts registered before the model stops registering.
MaxUsers == 4
\* The clock stops after this many ticks.
MaxTime == 6
\* Tokens issued before the model stops issuing.
MaxTokens == 1
\* Clock ticks per second (the clock is finer than the whole seconds of "exp").
TicksPerSecond == 2

\* ---------------------------------------------------------------- base64
\* A character of a text is an integer: 0..63 is the base64 digit of that
\* value, PAD is "=", JUNK an ASCII character outside the alphabet (blank,
\* newline, "!"), NONASCII a character outside ASCII.
PAD == 64
JUNK == 65
NONASCII == 66

Ok(v) == [ok |-> TRUE, value |-> v]
Err(why) == [ok |-> FALSE, value |-> why]

\* binascii.a2b_base64 in its default (non-strict) mode, the decoder behind
\* base64.b64decode(s) and base64.urlsafe_b64decode(s): characters outside
\* the alphabet are skipped, a complete pad sequence ends the parse, the
\* unused low bits of the last digit are dropped.
RECURSIVE a2b_base64(_, _, _, _, _)
a2b_base64(s, quad_pos, leftchar, pads, out) ==
    IF s = <<>>
    THEN IF quad_pos # 0 THEN Err("binascii.Error") ELSE Ok(out)
    ELSE LET this_ch == Head(s) IN
         IF this_ch = PAD
         THEN IF quad_pos >= 2 /\ quad_pos + pads + 1 >= 4
              THEN Ok(out)
              ELSE a2b_base64(Tail(s), quad_pos, leftchar,
                              IF quad_pos >= 2 THEN pads + 1 ELSE pads, out)
         ELSE IF this_ch >= 64
         THEN a2b_base64(Tail(s), quad_pos, leftchar, pads, out)
         ELSE CASE quad_pos = 0 ->
                     a2b_base64(Tail(s), 1, this_ch, 0, out)
                [] quad_pos = 1 ->
                     a2b_base64(Tail(s), 2, this_ch % 16, 0,
                                Append(out, leftchar * 4 + this_ch \div 16))
                [] quad_pos = 2 ->
                     a2b_base64(Tail(s), 3, this_ch % 4, 0,
                                Append(out, leftchar * 16 + this_ch \div 4))
                [] OTHER ->
                     a2b_base64(Tail(s), 0, 0, 0,
                                Append(out, leftchar * 64 + this_ch))

\* base64.b64decode(content) on a str: the text must be ASCII (ValueError
\* otherwise), then a2b_base64.
b64decode(s) ==
    IF \E i \in 1..Len(s) : s[i] = NONASCII
    THEN Err("ValueError")
    ELSE a2b_base64(s, 0, 0, 0, <<>>)

\* base64.b64encode(bytes): three bytes make four digits, the tail is padded.
RECURSIVE b64encode(_)
b64encode(b) ==
    IF Len(b) = 0 THEN <<>>
    ELSE IF Len(b) = 1
    THEN <<b[1] \div 4, (b[1] % 4) * 16, PAD, PAD>>
    ELSE IF Len(b) = 2
    THEN <<b[1] \div 4, (b[1] % 4) * 16 + b[2] \div 16, (b[2] % 16) * 4, PAD>>
    ELSE <<b[1] \div 4, (b[1] % 4) * 16 + b[2] \div 16,
           (b[2] % 16) * 4 + b[3] \div 64, b[3] % 64>>
         \o b64encode(SubSeq(b, 4, Len(b)))

\* jose.utils.base64url_encode: urlsafe_b64encode with the padding removed.
base64url_encode(b) == SelectSeq(b64encode(b), LAMBDA c : c # PAD)

\* jose.utils.base64url_decode: pad to a multiple of four, urlsafe_b64decode.
base64url_decode(s) ==
    LET rem == Len(s) % 4
        padded == IF rem > 0 THEN s \o [i \in 1..(4 - rem) |-> PAD] ELSE s
    IN  b64decode(padded)

\* -------------------------------------------------------------- security
SECRET_KEY == "your-secret-key-change-in-production"
ALGORITHM == "HS256"
ACCESS_TOKEN_EXPIRE_MINUTES == 30
\* bcrypt reads at most this many bytes of a password.
BCRYPT_MAX_BYTES == 72

\* The e-mail addresses and passwords requests carry ("" and <<>>: empty).
Emails == {"", "a@x", "c@x"}
Long72 == [i \in 1..BCRYPT_MAX_BYTES |-> 7]
Passwords == {<<>>, <<1>>, Long72 \o <<1>>}
Salts == {1, 2}

\* hash_password: bcrypt.hashpw over the first 72 bytes and a salt.
hashpw(password_bytes, salt) == [salt |-> salt, key |-> password_bytes]
hash_password(password, salt) ==
    hashpw(SubSeq(password, 1, IF Len(password) < BCRYPT_MAX_BYTES
                               THEN Len(password) ELSE BCRYPT_MAX_BYTES), salt)

\* verify_password: bcrypt.checkpw re-hashes with the salt of the digest.
verify_password(plain_password, hashed_password) ==
    hash_password(plain_password, hashed_password.salt) = hashed_password

\* timegm(d.utctimetuple()): an instant cut to whole seconds.
timegm(instant) == instant \div TicksPerSecond
timedelta_minutes(m) == m * 60 * TicksPerSecond
timedelta_seconds(sec) == sec * TicksPerSecond

\* A claim of the payload is None, Some(value), or Mistyped(value, type): a
\* JSON value of a type the application does not expect there.
Mistyped(value, type) == <<value, type>>

\* HMAC-SHA256 of the signing input (the header and claims segments as
\* text) under a key.  The digest is an injective code of what it covers, so
\* two inputs never collide; it is 5 bytes long, a length that leaves the
\* same 2 unused bits in its last base64 digit as the 32 real bytes do.
\* "variant" tells apart two texts of the claims segment that decode to the
\* same claims.
EmailCode(email) ==
    IF email = None THEN 0
    ELSE IF Len(email) = 2 THEN 4
    ELSE CASE email[1] = "a@x" -> 1 [] email[1] = "b@x" -> 2 [] OTHER -> 3
HS256(key, alg, claims, variant) ==
    LET exp == IF claims.exp = None THEN 16777215 ELSE claims.exp[1]
    IN  << (IF key = SECRET_KEY THEN 0 ELSE 1) + 2 * (IF alg = ALGORITHM THEN 0 ELSE 1)
             + 4 * variant + 8 * (IF claims.user_id = None THEN 0 ELSE claims.user_id[1])
             + 64 * (Len(claims.user_id) \div 2),
           EmailCode(claims.email),
           (exp \div 65536) % 256, (exp \div 256) % 256, exp % 256 >>

\* jose.jwt.encode: header.claims.signature, the signature base64url-encoded.
jwt_encode(claims, key, algorithm) ==
    [segments |-> 3, alg |-> algorithm, claims |-> claims, variant |-> 0,
     signature |-> base64url_encode(HS256(key, algorithm, claims, 0))]

\* jose.jwt.decode at instant t: three segments, a decodable signature, an
\* allowed algorithm, a matching digest, and "exp" not before the current
\* second (jose raises ExpiredSignatureError when exp < now).
jwt_decode(token, key, algorithms, t) ==
    IF token.segments # 3 THEN Err("JWTError")
    ELSE LET sig == base64url_decode(token.signature) IN
         IF ~sig.ok THEN Err("JWTError")
         ELSE IF token.alg \notin algorithms THEN Err("JWTError")
         ELSE IF sig.value # HS256(key, token.alg, token.claims, token.variant)
         THEN Err("JWTError")
         ELSE IF token.claims.exp # None /\ token.claims.exp[1] < timegm(t)
         THEN Err("JWTError")
         ELSE Ok(token.claims)

\* create_access_token(user_id, email, expires_delta) called at instant t;
\* expires_delta None is <<>>, otherwise <<ticks>>.
create_access_token(user_id, email, expires_delta, t) ==
    LET delta == IF expires_delta = None
                 THEN timedelta_minutes(ACCESS_TOKEN_EXPIRE_MINUTES)
                 ELSE expires_delta[1]
        expire == t + delta
    IN  jwt_encode([user_id |-> Some(user_id), email |-> Some(email),
                    exp |-> Some(timegm(expire))], SECRET_KEY, ALGORITHM)

\* TokenData(user_id=..., email=...): pydantic validates user_id: int and
\* email: str and raises ValidationError for a value it cannot read as such.
ValidationError == <<"raise", "pydantic.ValidationError">>
TokenData(user_id, email) ==
    IF Len(user_id) = 2 \/ Len(email) = 2 THEN ValidationError
    ELSE Some([user_id |-> user_id[1], email |-> email[1]])

\* verify_token(token) at instant t: None, <<TokenData>>, or the exception
\* that leaves it (only JWTError is caught).
verify_token(token, t) ==
    LET payload == jwt_decode(token, SECRET_KEY, {ALGORITHM}, t) IN
    IF ~payload.ok THEN None
    ELSE IF payload.value.user_id = None \/ payload.value.email = None THEN None
    ELSE TokenData(payload.value.user_id, payload.value.email)

\* HTTPBearer() (auto_error on) answers a request that carries no bearer
\* credential itself: 403 in FastAPI releases before 0.122, 401 from then on.
HTTPBearerStatus == {401, 403}

\* get_current_user behind Depends(security): the credential is None (no
\* Authorization header) or <<token>>.  The result is an error response or
\* the caller's TokenData.
get_current_user(credentials, t) ==
    IF credentials = None
    THEN {[ok |-> FALSE, status |-> st, detail |-> "Not authenticated"] : st \in HTTPBearerStatus}
    ELSE LET token_data == verify_token(credentials[1], t) IN
         IF token_data = ValidationError
         THEN {[ok |-> FALSE, status |-> 500, detail |-> "Internal Server Error"]}
         ELSE IF token_data = None
         THEN {[ok |-> FALSE, status |-> 401, detail |-> "Invalid or expired token"]}
         ELSE {[ok |-> TRUE, user |-> token_data[1]]}

\* ----------------------------------------------------------------- store
\* get_db(): the connection every handler opens.  It enforces the foreign
\* keys the migrations declare (PRAGMA foreign_keys).
foreign_keys == TRUE

\* select_folder without its "AND user_id = ?".
select_folder_any_owner(db, id, user_id) == {f \in db.folders : f.id = id}
\* SELECT ... FROM folders WHERE id = ? AND user_id = ?
select_folder(db, id, user_id) ==
    {f \in db.folders : f.id = id /\ f.user_id = user_id}
\* select_file without its "AND user_id = ?".
select_file_any_owner(db, id, user_id) == {f \in db.files : f.id = id}
\* SELECT ... FROM files WHERE id = ? AND user_id = ?
select_file(db, id, user_id) ==
    {f \in db.files : f.id = id /\ f.user_id = user_id}

\* The foreign keys declared but never checked.
fk_unchecked(db, user_id, parent_folder_id) == TRUE
\* The foreign keys of a folders / files row (migrations 003 and 004):
\* user_id REFERENCES users(id), parent_folder_id REFERENCES folders(id).
\* A NULL parent refers to nothing.
fk_holds(db, user_id, parent_folder_id) ==
    \/ ~foreign_keys
    \/ /\ user_id \in {u.id : u \in db.users}
       /\ \/ parent_folder_id = None
          \/ parent_folder_id[1] \in {f.id : f \in db.folders}

\* parent_folder_id REFERENCES folders(id) ON DELETE CASCADE, on folders:
\* the ids of the folders that go when the folders "gone" go.
RECURSIVE cascade_folders(_, _)
cascade_folders(rows, gone) ==
    LET more == gone \cup {f.id : f \in {g \in rows : /\ g.parent_folder_id # None
                                                     /\ g.parent_folder_id[1] \in gone}}
    IN  IF more = gone THEN gone ELSE cascade_folders(rows, more)

\* The files rule without its ON DELETE CASCADE: the files stay.
cascade_files_none(rows, gone) == rows
\* parent_folder_id REFERENCES folders(id) ON DELETE CASCADE, on files:
\* the files left when the folders "gone" go.
cascade_files(rows, gone) ==
    {f \in rows : f.parent_folder_id = None \/ f.parent_folder_id[1] \notin gone}

\* DELETE FROM folders WHERE id = ?
delete_from_folders(db, id) ==
    LET gone == IF foreign_keys THEN cascade_folders(db.folders, {id}) ELSE {id} IN
    [db EXCEPT !.folders = {f \in db.folders : f.id \notin gone},
               !.files = IF foreign_keys THEN cascade_files(db.files, gone) ELSE db.files]

\* --------------------------------------------------------------- responses
NoBody == [none |-> TRUE]
\* What a handler leaves: the response and the database.
Respond(op, status, detail, body, db) ==
    [response |-> [op |-> op, status |-> status, detail |-> detail, body |-> body],
     db |-> db]
DatabaseError == "Database error: FOREIGN KEY constraint failed"

FolderItem(row) ==
    [id |-> row.id, name |-> row.name, parent_folder_id |-> row.parent_folder_id,
     created_at |-> row.created_at]
FileItem(row) ==
    [id |-> row.id, name |-> row.name, size |-> row.size, mime_type |-> row.mime_type]

\* ----------------------------------------------------------------- folders
\* Every handler below takes the database it runs on, the outcome "auth" of
\* its get_current_user dependency, its arguments and the instant t.

\* create_folder on a table whose id is not AUTOINCREMENT: the ids of deleted
\* rows are given out again.
create_folder_rowid(db, auth, name, parent_folder_id, t) ==
    IF ~auth.ok THEN Respond("create_folder", auth.status, auth.detail, NoBody, db)
    ELSE IF name = ""
    THEN Respond("create_folder", 400, "Folder name is required", NoBody, db)
    ELSE IF /\ parent_folder_id # None /\ parent_folder_id[1] # 0
            /\ select_folder(db, parent_folder_id[1], auth.user.user_id) = {}
    THEN Respond("create_folder", 404, "Parent folder not found", NoBody, db)
    ELSE IF ~fk_holds(db, auth.user.user_id, parent_folder_id)
    THEN Respond("create_folder", 500, DatabaseError, NoBody, db)
    ELSE LET row == [id |-> IF db.folders = {} THEN 1
                            ELSE 1 + CHOOSE m \in {f.id : f \in db.folders} :
                                         \A f \in db.folders : f.id <= m, name |-> name,
                     user_id |-> auth.user.user_id,
                     parent_folder_id |-> parent_folder_id,
                     created_at |-> timegm(t)]
         IN  Respond("create_folder", 201, "", FolderItem(row),
                     [db EXCEPT !.folders = @ \cup {row},
                                !.sqlite_sequence.folders = @ + 1])

\* POST /folders
create_folder(db, auth, name, parent_folder_id, t) ==
    IF ~auth.ok THEN Respond("create_folder", auth.status, auth.detail, NoBody, db)
    ELSE IF name = ""
    THEN Respond("create_folder", 400, "Folder name is required", NoBody, db)
    ELSE IF /\ parent_folder_id # None /\ parent_folder_id[1] # 0
            /\ select_folder(db, parent_folder_id[1], auth.user.user_id) = {}
    THEN Respond("create_folder", 404, "Parent folder not found", NoBody, db)
    ELSE IF ~fk_holds(db, auth.user.user_id, parent_folder_id)
    THEN Respond("create_folder", 500, DatabaseError, NoBody, db)
    ELSE LET row == [id |-> db.sqlite_sequence.folders + 1, name |-> name,
                     user_id |-> auth.user.user_id,
                     parent_folder_id |-> parent_folder_id,
                     created_at |-> timegm(t)]
         IN  Respond("create_folder", 201, "", FolderItem(row),
                     [db EXCEPT !.folders = @ \cup {row},
                                !.sqlite_sequence.folders = @ + 1])

\* GET /folders/{folder_id}
\* get_folder whose file listing forgets the parent: every file of the caller.
get_folder_all_files(db, auth, folder_id) ==
    IF ~auth.ok THEN Respond("get_folder", auth.status, auth.detail, NoBody, db)
    ELSE IF select_folder(db, folder_id, auth.user.user_id) = {}
    THEN Respond("get_folder", 404, "Folder not found", NoBody, db)
    ELSE LET folder_row == CHOOSE f \in select_folder(db, folder_id, auth.user.user_id) : TRUE
             subfolders == {FolderItem(f) : f \in
                              {g \in db.folders : /\ g.parent_folder_id = Some(folder_id)
                                                  /\ g.user_id = auth.user.user_id}}
             listed == {FileItem(f) : f \in
                              {g \in db.files : g.user_id = auth.user.user_id}}
         IN  Respond("get_folder", 200, "",
                     [id |-> folder_row.id, name |-> folder_row.name,
                      parent_folder_id |-> folder_row.parent_folder_id,
                      created_at |-> folder_row.created_at,
                      subfolders |-> subfolders, files |-> listed], db)

get_folder(db, auth, folder_id) ==
    IF ~auth.ok THEN Respond("get_folder", auth.status, auth.detail, NoBody, db)
    ELSE IF select_folder(db, folder_id, auth.user.user_id) = {}
    THEN Respond("get_folder", 404, "Folder not found", NoBody, db)
    ELSE LET folder_row == CHOOSE f \in select_folder(db, folder_id, auth.user.user_id) : TRUE
             subfolders == {FolderItem(f) : f \in
                              {g \in db.folders : /\ g.parent_folder_id = Some(folder_id)
                                                  /\ g.user_id = auth.user.user_id}}
             listed == {FileItem(f) : f \in
                              {g \in db.files : /\ g.parent_folder_id = Some(folder_id)
                                                /\ g.user_id = auth.user.user_id}}
         IN  Respond("get_folder", 200, "",
                     [id |-> folder_row.id, name |-> folder_row.name,
                      parent_folder_id |-> folder_row.parent_folder_id,
                      created_at |-> folder_row.created_at,
                      subfolders |-> subfolders, files |-> listed], db)

\* PATCH /folders/{folder_id}
rename_folder(db, auth, folder_id, name) ==
    IF ~auth.ok THEN Respond("rename_folder", auth.status, auth.detail, NoBody, db)
    ELSE IF name = ""
    THEN Respond("rename_folder", 400, "Folder name is required", NoBody, db)
    ELSE IF select_folder(db, folder_id, auth.user.user_id) = {}
    THEN Respond("rename_folder", 404, "Folder not found", NoBody, db)
    ELSE LET updated == {IF f.id = folder_id THEN [f EXCEPT !.name = name] ELSE f
                           : f \in db.folders}
             row == CHOOSE f \in updated : f.id = folder_id
         IN  Respond("rename_folder", 200, "", FolderItem(row),
                     [db EXCEPT !.folders = updated])

\* DELETE /folders/{folder_id}
delete_folder(db, auth, folder_id) ==
    IF ~auth.ok THEN Respond("delete_folder", auth.status, auth.detail, NoBody, db)
    ELSE IF select_folder(db, folder_id, auth.user.user_id) = {}
    THEN Respond("delete_folder", 404, "Folder not found", NoBody, db)
    ELSE Respond("delete_folder", 204, "", NoBody, delete_from_folders(db, folder_id))

\* ------------------------------------------------------------------- files
\* mimetypes.guess_type(filename)[0], by the extension of the name.
guess_type(filename) ==
    CASE filename = "q1.pdf" -> Some("application/pdf")
      [] filename = "notes.txt" -> Some("text/plain")
      [] OTHER -> None

\* detect_mime_type
detect_mime_type(filename) ==
    IF guess_type(filename) # None THEN guess_type(filename)[1]
    ELSE "application/octet-stream"

FileMetadata(row) ==
    [id |-> row.id, name |-> row.name, size |-> row.size, mime_type |-> row.mime_type,
     parent_folder_id |-> row.parent_folder_id, created_at |-> row.created_at]
\* FileDownload with the url-safe encoder of the token code, which drops the
\* padding.
FileDownload_unpadded(row) ==
    [id |-> row.id, name |-> row.name, content |-> base64url_encode(row.content),
     mime_type |-> row.mime_type, size |-> row.size]
FileDownload(row) ==
    [id |-> row.id, name |-> row.name, content |-> b64encode(row.content),
     mime_type |-> row.mime_type, size |-> row.size]

\* POST /files
upload_file(db, auth, name, content, parent_folder_id, t) ==
    IF ~auth.ok THEN Respond("upload_file", auth.status, auth.detail, NoBody, db)
    ELSE IF name = ""
    THEN Respond("upload_file", 400, "File name is required", NoBody, db)
    ELSE IF content = <<>>
    THEN Respond("upload_file", 400, "File content is required", NoBody, db)
    ELSE IF ~b64decode(content).ok
    THEN Respond("upload_file", 400, "Invalid base64 content", NoBody, db)
    ELSE IF /\ parent_folder_id # None /\ parent_folder_id[1] # 0
            /\ select_folder(db, parent_folder_id[1], auth.user.user_id) = {}
    THEN Respond("upload_file", 404, "Parent folder not found", NoBody, db)
    ELSE IF ~fk_holds(db, auth.user.user_id, parent_folder_id)
    THEN Respond("upload_file", 500, DatabaseError, NoBody, db)
    ELSE LET decoded_content == b64decode(content).value
             row == [id |-> db.sqlite_sequence.files + 1, name |-> name,
                     content |-> decoded_content, size |-> Len(decoded_content),
                     mime_type |-> detect_mime_type(name),
                     user_id |-> auth.user.user_id,
                     parent_folder_id |-> parent_folder_id,
                     created_at |-> timegm(t)]
         IN  Respond("upload_file", 201, "", FileMetadata(row),
                     [db EXCEPT !.files = @ \cup {row},
                                !.sqlite_sequence.files = @ + 1])

\* GET /files/{file_id}
get_file_metadata(db, auth, file_id) ==
    IF ~auth.ok THEN Respond("get_file_metadata", auth.status, auth.detail, NoBody, db)
    ELSE IF select_file(db, file_id, auth.user.user_id) = {}
    THEN Respond("get_file_metadata", 404, "File not found", NoBody, db)
    ELSE LET row == CHOOSE f \in select_file(db, file_id, auth.user.user_id) : TRUE
         IN  Respond("get_file_metadata", 200, "", FileMetadata(row), db)

\* GET /files/{file_id}/download
download_file(db, auth, file_id) ==
    IF ~auth.ok THEN Respond("download_file", auth.status, auth.detail, NoBody, db)
    ELSE IF select_file(db, file_id, auth.user.user_id) = {}
    THEN Respond("download_file", 404, "File not found", NoBody, db)
    ELSE LET row == CHOOSE f \in select_file(db, file_id, auth.user.user_id) : TRUE
         IN  Respond("download_file", 200, "", FileDownload(row), db)

\* rename_file that detects the MIME type again from the new name.
rename_file_redetect(db, auth, file_id, name) ==
    IF ~auth.ok THEN Respond("rename_file", auth.status, auth.detail, NoBody, db)
    ELSE IF name = ""
    THEN Respond("rename_file", 400, "File name is required", NoBody, db)
    ELSE IF select_file(db, file_id, auth.user.user_id) = {}
    THEN Respond("rename_file", 404, "File not found", NoBody, db)
    ELSE LET updated == {IF f.id = file_id
                         THEN [f EXCEPT !.name = name, !.mime_type = detect_mime_type(name)]
                         ELSE f : f \in db.files}
             row == CHOOSE f \in updated : f.id = file_id
         IN  Respond("rename_file", 200, "", FileMetadata(row),
                     [db EXCEPT !.files = updated])

\* PATCH /files/{file_id}
rename_file(db, auth, file_id, name) ==
    IF ~auth.ok THEN Respond("rename_file", auth.status, auth.detail, NoBody, db)
    ELSE IF name = ""
    THEN Respond("rename_file", 400, "File name is required", NoBody, db)
    ELSE IF select_file(db, file_id, auth.user.user_id) = {}
    THEN Respond("rename_file", 404, "File not found", NoBody, db)
    ELSE LET updated == {IF f.id = file_id THEN [f EXCEPT !.name = name] ELSE f
                           : f \in db.files}
             row == CHOOSE f \in updated : f.id = file_id
         IN  Respond("rename_file", 200, "", FileMetadata(row),
                     [db EXCEPT !.files = updated])

\* delete_file whose DELETE names the folder, not the file: siblings go too.
delete_file_siblings(db, auth, file_id) ==
    IF ~auth.ok THEN Respond("delete_file", auth.status, auth.detail, NoBody, db)
    ELSE IF select_file(db, file_id, auth.user.user_id) = {}
    THEN Respond("delete_file", 404, "File not found", NoBody, db)
    ELSE LET row == CHOOSE f \in select_file(db, file_id, auth.user.user_id) : TRUE IN
         Respond("delete_file", 204, "", NoBody,
                 [db EXCEPT !.files = {f \in db.files :
                                          f.parent_folder_id # row.parent_folder_id}])

\* DELETE /files/{file_id}
delete_file(db, auth, file_id) ==
    IF ~auth.ok THEN Respond("delete_file", auth.status, auth.detail, NoBody, db)
    ELSE IF select_file(db, file_id, auth.user.user_id) = {}
    THEN Respond("delete_file", 404, "File not found", NoBody, db)
    ELSE Respond("delete_file", 204, "", NoBody,
                 [db EXCEPT !.files = {f \in db.files : f.id # file_id}])

\* The UPDATE of move_file without its "WHERE id = ?".
update_files_parent_all(rows, file_id, parent_folder_id) ==
    {[f EXCEPT !.parent_folder_id = parent_folder_id] : f \in rows}
\* UPDATE files SET parent_folder_id = ? WHERE id = ?
update_files_parent(rows, file_id, parent_folder_id) ==
    {IF f.id = file_id THEN [f EXCEPT !.parent_folder_id = parent_folder_id] ELSE f
       : f \in rows}

\* PATCH /files/{file_id}/move
move_file(db, auth, file_id, parent_folder_id) ==
    IF ~auth.ok THEN Respond("move_file", auth.status, auth.detail, NoBody, db)
    ELSE IF select_file(db, file_id, auth.user.user_id) = {}
    THEN Respond("move_file", 404, "File not found", NoBody, db)
    ELSE IF /\ parent_folder_id # None
            /\ select_folder(db, parent_folder_id[1], auth.user.user_id) = {}
    THEN Respond("move_file", 404, "Target folder not found", NoBody, db)
    ELSE IF ~fk_holds(db, auth.user.user_id, parent_folder_id)
    THEN Respond("move_file", 500, DatabaseError, NoBody, db)
    ELSE LET updated == update_files_parent(db.files, file_id, parent_folder_id)
             row == CHOOSE f \in updated : f.id = file_id
         IN  Respond("move_file", 200, "", FileMetadata(row),
                     [db EXCEPT !.files = updated])

\* ------------------------------------------------------------ environment
\* The two accounts of the storage specifications, as register leaves them.
Accounts ==
    {[id |-> 1, email |-> "a@x", password_hash |-> hash_password(<<1>>, 1)],
     [id |-> 2, email |-> "b@x", password_hash |-> hash_password(<<2>>, 2)]}

\* Bearer credentials: the token login gives each user, none, a token of
\* user 1 that expired a second ago, and one signed with another key.
ValidCredentials == {Some(create_access_token(u.id, u.email, None, now)) : u \in users}
ExpiredCredential == Some(create_access_token(1, "a@x", Some(timedelta_seconds(-1)), now))
ForgedCredential ==
    Some(jwt_encode([user_id |-> Some(1), email |-> Some("a@x"),
                     exp |-> Some(timegm(now) + 60)], "not-the-key", ALGORITHM))

\* The arguments requests carry.
ParentArgs == {None, Some(0)} \cup {Some(i) : i \in 1..MaxRows}
IdArgs == 1..MaxRows
\* "QQ==": the byte 65.
OneByte == <<16, 16, PAD, PAD>>

\* The threads of the server's pool that run register, and a thread at rest.
Workers == {1, 2}
Idle == [pc |-> "idle"]

NoResponse == [op |-> "none", status |-> 0, detail |-> "", body |-> NoBody]

Init ==
    /\ users = Accounts
    /\ folders = {}
    /\ files = {}
    /\ sqlite_sequence = [users |-> 2, folders |-> 0, files |-> 0]
    /\ now = 2 * TicksPerSecond
    /\ issued = {}
    /\ regs = [w \in Workers |-> Idle]
    /\ response = NoResponse

\* A request served: the handler's response is sent and its database is the
\* database from now on.  The model stops inserting at MaxRows rows.
Serve(result) ==
    /\ result.db.sqlite_sequence.folders + result.db.sqlite_sequence.files <= MaxRows
    /\ users' = result.db.users
    /\ folders' = result.db.folders
    /\ files' = result.db.files
    /\ sqlite_sequence' = result.db.sqlite_sequence
    /\ response' = result.response
    /\ UNCHANGED <<now, issued, regs>>

\* The outcomes of get_current_user for the credentials "creds".
Callers(creds) == UNION {get_current_user(c, now) : c \in creds}

CreateFolder(creds, names) ==
    \E auth \in Callers(creds), n \in names, p \in ParentArgs :
        Serve(create_folder(DB, auth, n, p, now))
GetFolder(creds) ==
    \E auth \in Callers(creds), i \in IdArgs :
        Serve(get_folder(DB, auth, i))
RenameFolder(creds, names) ==
    \E auth \in Callers(creds), i \in IdArgs, n \in names :
        Serve(rename_folder(DB, auth, i, n))
DeleteFolder(creds) ==
    \E auth \in Callers(creds), i \in IdArgs :
        Serve(delete_folder(DB, auth, i))
UploadFile(creds, names, contents) ==
    \E auth \in Callers(creds), n \in names, b \in contents, p \in ParentArgs :
        Serve(upload_file(DB, auth, n, b, p, now))
GetFileMetadata(creds) ==
    \E auth \in Callers(creds), i \in IdArgs :
        Serve(get_file_metadata(DB, auth, i))
DownloadFile(creds) ==
    \E auth \in Callers(creds), i \in IdArgs :
        Serve(download_file(DB, auth, i))
RenameFile(creds, names) ==
    \E auth \in Callers(creds), i \in IdArgs, n \in names :
        Serve(rename_file(DB, auth, i, n))
DeleteFile(creds) ==
    \E auth \in Callers(creds), i \in IdArgs :
        Serve(delete_file(DB, auth, i))
MoveFile(creds) ==
    \E auth \in Callers(creds), i \in IdArgs, p \in ParentArgs :
        Serve(move_file(DB, auth, i, p))

\* The storage service used by its two users, each with the token login gave.
Next ==
    \/ CreateFolder(ValidCredentials, {"docs"})
    \/ GetFolder(ValidCredentials)
    \/ RenameFolder(ValidCredentials, {"docs"})
    \/ DeleteFolder(ValidCredentials)
    \/ UploadFile(ValidCredentials, {"q1.pdf"}, {OneByte})
    \/ GetFileMetadata(ValidCredentials)
    \/ DownloadFile(ValidCredentials)
    \/ RenameFile(ValidCredentials, {"q1.pdf"})
    \/ DeleteFile(ValidCredentials)
    \/ MoveFile(ValidCredentials)

Spec == Init /\ [][Next]_vars

\* ================================================================ claims
\* The caller a user is once get_current_user has accepted the token login
\* gave that user.
Login(u) ==
    CHOOSE auth \in get_current_user(Some(create_access_token(u.id, u.email, None, now)), now) :
        TRUE
\* An id no folder and no file has.
AbsentId == sqlite_sequence.folders + sqlite_sequence.files + 1
NotFound(result) ==
    /\ result.response.status = 404
    /\ result.response.body = NoBody
    /\ result.db = DB

\* ---- C1
\* C1: a folder or file operation invoked as user A with the id of a row that
\* belongs to another user B answers 404 with no data of B, writes nothing,
\* and answers exactly as it does for an id that no row has.  (The two
\* renames are asked with a name that passes their input check; with an
\* empty name they answer 400, for B's id and for an absent id alike.)
C1_CrossOwnerNotFound ==
    \A a \in users : LET auth == Login(a) IN \A b \in users : a.id # b.id =>
        /\ \A f \in {g \in folders : g.user_id = b.id} :
            /\ NotFound(get_folder(DB, auth, f.id))
            /\ get_folder(DB, auth, f.id) = get_folder(DB, auth, AbsentId)
            /\ NotFound(rename_folder(DB, auth, f.id, "reports"))
            /\ \A n \in {"", "reports"} :
                 rename_folder(DB, auth, f.id, n) = rename_folder(DB, auth, AbsentId, n)
            /\ NotFound(delete_folder(DB, auth, f.id))
            /\ delete_folder(DB, auth, f.id) = delete_folder(DB, auth, AbsentId)
        /\ \A f \in {g \in files : g.user_id = b.id} :
            /\ NotFound(get_file_metadata(DB, auth, f.id))
            /\ get_file_metadata(DB, auth, f.id) = get_file_metadata(DB, auth, AbsentId)
            /\ NotFound(download_file(DB, auth, f.id))
            /\ download_file(DB, auth, f.id) = download_file(DB, auth, AbsentId)
            /\ NotFound(rename_file(DB, auth, f.id, "notes.txt"))
            /\ \A n \in {"", "notes.txt"} :
                 rename_file(DB, auth, f.id, n) = rename_file(DB, auth, AbsentId, n)
            /\ NotFound(delete_file(DB, auth, f.id))
            /\ delete_file(DB, auth, f.id) = delete_file(DB, auth, AbsentId)
            /\ \A p \in ParentArgs :
                 /\ NotFound(move_file(DB, auth, f.id, p))
                 /\ move_file(DB, auth, f.id, p) = move_file(DB, auth, AbsentId, p)

\* Every id a request can name is a file of user 2, and a download has just
\* been refused: the refused caller is user 1, asking for a file of user 2.
C1_Witness ==
    /\ \A i \in IdArgs : \E f \in files : f.id = i /\ f.user_id = 2
    /\ response.op = "download_file"
    /\ response.status = 404

\* ---- C2
\* The folder "g" is the folder "root" or lies below it, by parent links.
RECURSIVE Below(_, _, _)
Below(rows, g, root) ==
    \/ g.id = root
    \/ /\ g.parent_folder_id # None
       /\ \E p \in rows : p.id = g.parent_folder_id[1] /\ Below(rows, p, root)
Subtree(rows, root) == {g.id : g \in {h \in rows : Below(rows, h, root)}}

\* What delete_folder by the owner leaves of folder f: it answers 204; f, the
\* folders below f and the files in any of them are gone and fetching them
\* answers 404; every other folder and file, and the users, are as before.
DeleteLeaves(f) ==
    LET owner == Login(CHOOSE u \in users : u.id = f.user_id)
        result == delete_folder(DB, owner, f.id)
        sub == Subtree(folders, f.id)
        lost == {x \in files : x.parent_folder_id # None /\ x.parent_folder_id[1] \in sub}
    IN  /\ result.response.status = 204
        /\ result.db.folders = {g \in folders : g.id \notin sub}
        /\ result.db.files = files \ lost
        /\ result.db.users = users
        /\ result.db.sqlite_sequence = sqlite_sequence
        /\ \A i \in sub : get_folder(result.db, owner, i).response.status = 404
        /\ \A x \in lost :
             /\ get_file_metadata(result.db, owner, x.id).response.status = 404
             /\ download_file(result.db, owner, x.id).response.status = 404

\* C2: after delete_folder by the owner the folder, every folder below it and
\* every file in that subtree are gone (404), and nothing outside it changed.
C2_DeleteFolderCascades == \A f \in folders : DeleteLeaves(f)

\* A folder holding a subfolder holding a file, as in the worked example:
\* deleting the top folder takes all three rows.
C2_Witness ==
    \E f \in folders, g \in folders, x \in files :
        /\ f.parent_folder_id = None
        /\ g.parent_folder_id = Some(f.id)
        /\ x.parent_folder_id = Some(g.id)
        /\ LET result == delete_folder(DB, Login(CHOOSE u \in users : u.id = f.user_id), f.id)
           IN  /\ result.response.status = 204
               /\ g \notin result.db.folders
               /\ x \notin result.db.files

\* ---- C3
\* C3: every stored folder with a parent refers to a stored folder of the
\* same user.
C3_FolderParentValid ==
    \A f \in folders : f.parent_folder_id # None =>
        \E g \in folders : g.id = f.parent_folder_id[1] /\ g.user_id = f.user_id

\* A subfolder is stored, and a create_folder with parent 0 has been answered.
C3_Witness ==
    /\ \E f \in folders : f.parent_folder_id # None
    /\ response.op = "create_folder"
    /\ response.status = 500

\* ---- C4
\* C4: every stored file with a parent refers to a stored folder of the
\* file's user.
C4_FileParentValid ==
    \A x \in files : x.parent_folder_id # None =>
        \E g \in folders : g.id = x.parent_folder_id[1] /\ g.user_id = x.user_id

\* A file has just been moved into a folder, while the other user has a
\* folder too.
C4_Witness ==
    /\ response.op = "move_file"
    /\ response.status = 200
    /\ response.body.parent_folder_id # None
    /\ \E g \in folders, x \in files : g.user_id # x.user_id

\* ---- C5
\* Parent arguments that name no folder of user u.
BadParents(u) ==
    {p \in {Some(i) : i \in -1..(MaxRows + 1)} : select_folder(DB, p[1], u.id) = {}}

\* C5: create_folder and upload_file with a parent id (0 included) that names
\* no folder of the caller answer 404 and insert nothing.
C5_BadParentNotFound ==
    \A u \in users : \A p \in BadParents(u) :
        /\ NotFound(create_folder(DB, Login(u), "docs", p, now))
        /\ NotFound(upload_file(DB, Login(u), "q1.pdf", OneByte, p, now))

\* ---- C6
\* The ids of the files get_folder lists in folder i of user u, on database db.
Listed(db, u, i) == {item.id : item \in get_folder(db, Login(u), i).response.body.files}
\* The root level of user u: the files of u without a parent.
RootLevel(db, u) == {x.id : x \in {y \in db.files : y.user_id = u.id /\ y.parent_folder_id = None}}

\* What move_file by the owner u does to file x, for every target.
MoveLeaves(u, x) ==
    LET old == x.parent_folder_id
        toRoot == move_file(DB, Login(u), x.id, None)
    IN  /\ toRoot.response.status = 200
        /\ toRoot.response.body.parent_folder_id = None
        /\ toRoot.db = [DB EXCEPT !.files = (files \ {x}) \cup {[x EXCEPT !.parent_folder_id = None]}]
        /\ x.id \in RootLevel(toRoot.db, u)
        /\ old # None => x.id \notin Listed(toRoot.db, u, old[1])
        /\ \A g \in {h \in folders : h.user_id = u.id} :
             LET moved == move_file(DB, Login(u), x.id, Some(g.id)) IN
             /\ moved.response.status = 200
             /\ moved.response.body.parent_folder_id = Some(g.id)
             /\ moved.db = [DB EXCEPT !.files =
                              (files \ {x}) \cup {[x EXCEPT !.parent_folder_id = Some(g.id)]}]
             /\ x.id \in Listed(moved.db, u, g.id)
             /\ x.id \notin RootLevel(moved.db, u)
             /\ (old # None /\ old # Some(g.id)) => x.id \notin Listed(moved.db, u, old[1])
        /\ \A p \in BadParents(u) :
             /\ NotFound(move_file(DB, Login(u), x.id, p))
             /\ move_file(DB, Login(u), x.id, p).response.detail = "Target folder not found"

\* C6: move_file by the owner puts the file at the root level for a null
\* target and into the target folder for a folder of the caller; the old
\* parent (when it is not the target) no longer lists the file and the new
\* place does; a target that names no folder of the caller answers 404 and
\* the file stays where it was.  (The root level is read off the files
\* table: the service has no request that lists it.)
C6_MoveFile ==
    \A u \in users : \A x \in {y \in files : y.user_id = u.id} : MoveLeaves(u, x)

\* A file has just been moved to the root level, next to a second file: the
\* root level holds it and a folder of its owner does not list it.
C6_Witness ==
    /\ response.op = "move_file"
    /\ response.status = 200
    /\ response.body.parent_folder_id = None
    /\ \E u \in users, g \in folders :
         /\ g.user_id = u.id
         /\ response.body.id \notin Listed(DB, u, g.id)
         /\ response.body.id \in RootLevel(DB, u)
    /\ Cardinality(files) >= 2

\* ---------------------------------------------------------- SpecContent
\* One user storing files of several contents.  The texts uploaded: the
\* encoding of two bytes ("QUI="), a text that says the byte 65 with other
\* low bits in its last digit ("QR=="), and one upload_file refuses ("Q").
ContentTexts == {<<16, 20, 8, PAD>>, <<16, 17, PAD, PAD>>, <<16>>}
UserOne == {Some(create_access_token(u.id, u.email, None, now)) : u \in {v \in users : v.id = 1}}

NextContent ==
    \/ CreateFolder(UserOne, {"docs"})
    \/ UploadFile(UserOne, {"q1.pdf"}, ContentTexts)
    \/ DownloadFile(UserOne)
    \/ RenameFile(UserOne, {"notes.txt"})
    \/ MoveFile(UserOne)
    \/ DeleteFile(UserOne)

SpecContent == Init /\ [][NextContent]_vars

\* ---- C7
\* The byte strings clients store.
ByteContents == {<<65>>, <<65, 66>>, <<65, 66, 67>>, <<0, 255, 128, 7>>}

\* Uploading the bytes c (encoded by the client) as the caller auth and
\* downloading the new file gives c back, and both responses give the size
\* Len(c).
RoundTrip(auth, c, p) ==
    LET up == upload_file(DB, auth, "q1.pdf", b64encode(c), p, now)
        down == download_file(up.db, auth, up.response.body.id)
    IN  /\ up.response.status = 201
        /\ up.response.body.size = Len(c)
        /\ down.response.status = 200
        /\ b64decode(down.response.body.content) = Ok(c)
        /\ down.response.body.size = Len(c)

\* Every stored file downloads as its stored bytes, with their length as size.
DownloadsStored ==
    \A x \in files :
        LET down == download_file(DB, Login(CHOOSE u \in users : u.id = x.user_id), x.id)
        IN  /\ down.response.status = 200
            /\ b64decode(down.response.body.content) = Ok(x.content)
            /\ down.response.body.size = Len(x.content)

\* No request changes the bytes or the size of a file that stays.
ContentKept ==
    \A x \in files : \A y \in files' : y.id = x.id => y.content = x.content /\ y.size = x.size

\* C7: content accepted by upload_file comes back from download_file byte
\* for byte, with size the number of bytes, straight after the upload and
\* after any renames, moves and requests on other rows that leave the file.
C7_RoundTrip ==
    /\ [](\A u \in users :
            LET auth == Login(u) IN
            \A c \in ByteContents :
               \A p \in {None} \cup {Some(g.id) : g \in {h \in folders : h.user_id = u.id}} :
                  RoundTrip(auth, c, p))
    /\ []DownloadsStored
    /\ [][ContentKept]_vars

\* A two-byte file, renamed and lying in a folder, has just been downloaded.
C7_Witness ==
    /\ response.op = "download_file"
    /\ response.status = 200
    /\ response.body.name = "notes.txt"
    /\ b64decode(response.body.content) = Ok(<<65, 66>>)
    /\ \E x \in files : x.id = response.body.id /\ x.parent_folder_id # None

\* ------------------------------------------------------------ SpecToken
\* The token service on its own: tokens are issued, the clock runs, tokens
\* and tampered copies of them are verified.
Lifetimes == {None, Some(1), Some(timedelta_seconds(1))}

\* The strings that differ from the token in one byte.  A byte of the
\* signature segment becomes another base64 digit, "=" or a character outside
\* the alphabet; a byte of the header or claims segment changes what the
\* segment says, or only how it says it (variant); a byte becomes or stops
\* being a ".", which changes the number of segments.
Tampered(token) ==
    ({[token EXCEPT !.signature[i] = c] :
        i \in 1..Len(token.signature), c \in 0..65} \ {token})
    \cup {[token EXCEPT !.variant = 1], [token EXCEPT !.alg = "none"],
          [token EXCEPT !.claims.user_id = Some(3 - @[1])],
          [token EXCEPT !.claims.exp = Some(@[1] + 1)],
          [token EXCEPT !.segments = 2], [token EXCEPT !.segments = 4]}

IssueToken ==
    \E u \in users, d \in Lifetimes :
        LET token == create_access_token(u.id, u.email, d, now)
            expire == now + (IF d = None
                             THEN timedelta_minutes(ACCESS_TOKEN_EXPIRE_MINUTES) ELSE d[1])
        IN  /\ Cardinality(issued) < MaxTokens
            /\ issued' = issued \cup {[token |-> token, user_id |-> u.id,
                                      email |-> u.email, expire |-> expire]}
            /\ response' = [op |-> "create_access_token", status |-> 200, detail |-> "",
                            body |-> [token |-> token]]
            /\ UNCHANGED <<store, now, regs>>

Tick ==
    /\ now < 2 * TicksPerSecond + MaxTime
    /\ now' = now + 1
    /\ UNCHANGED <<store, issued, regs, response>>

VerifyToken ==
    \E i \in issued :
        /\ response' = [op |-> "verify_token", status |-> 200, detail |-> "",
                        body |-> [genuine |-> TRUE, result |-> verify_token(i.token, now)]]
        /\ UNCHANGED <<store, now, issued, regs>>

VerifyTampered ==
    \E i \in issued : \E token \in Tampered(i.token) :
        /\ response' = [op |-> "verify_token", status |-> 200, detail |-> "",
                        body |-> [genuine |-> FALSE, result |-> verify_token(token, now)]]
        /\ UNCHANGED <<store, now, issued, regs>>

\* Tokens made outside the service: signed with another key, cut to two
\* segments, expired, and signed with the service's key but lacking a
\* claim or carrying one of another JSON type ("abc" for user_id, a list for
\* email).
Payload(user_id, email) ==
    [user_id |-> user_id, email |-> email, exp |-> Some(timegm(now) + 60)]
Incomplete ==
    {jwt_encode(Payload(None, Some("a@x")), SECRET_KEY, ALGORITHM),
     jwt_encode(Payload(Some(1), None), SECRET_KEY, ALGORITHM),
     jwt_encode(Payload(None, None), SECRET_KEY, ALGORITHM)}
WrongType ==
    {jwt_encode(Payload(Mistyped(0, "str"), Some("a@x")), SECRET_KEY, ALGORITHM),
     jwt_encode(Payload(Some(1), Mistyped("", "list")), SECRET_KEY, ALGORITHM)}
Crafted ==
    {ForgedCredential[1], ExpiredCredential[1],
     [ExpiredCredential[1] EXCEPT !.segments = 2]} \cup Incomplete \cup WrongType

VerifyCrafted ==
    \E token \in Crafted :
        /\ response' = [op |-> "verify_token", status |-> 200, detail |-> "",
                        body |-> [genuine |-> FALSE, result |-> verify_token(token, now)]]
        /\ UNCHANGED <<store, now, issued, regs>>

NextToken == IssueToken \/ Tick \/ VerifyToken \/ VerifyTampered \/ VerifyCrafted

SpecToken == Init /\ [][NextToken]_vars

\* ---- C8
\* C8: a token issued for a user with expiration instant e verifies as that
\* user at every instant before e, fails at every instant from e on, and
\* every string one byte away from it fails at every instant.
C8_TokenLifetime ==
    \A i \in issued :
        /\ now < i.expire =>
             verify_token(i.token, now) = Some([user_id |-> i.user_id, email |-> i.email])
        /\ now >= i.expire => verify_token(i.token, now) = None
        /\ \A token \in Tampered(i.token) : verify_token(token, now) = None

\* ------------------------------------------------------------- SpecGate
\* The storage service asked by one user with a good token and by callers
\* with no credential, an expired token and a token signed with another key;
\* requests also carry an empty name and text that is not base64.
Rejected == {None, ExpiredCredential, ForgedCredential}
GateCredentials == Rejected \cup UserOne
GateNames == {"", "docs"}
GateContents == {OneByte, <<16>>}

NextGate ==
    \/ CreateFolder(GateCredentials, GateNames)
    \/ GetFolder(GateCredentials)
    \/ RenameFolder(GateCredentials, GateNames)
    \/ DeleteFolder(GateCredentials)
    \/ UploadFile(GateCredentials, GateNames, GateContents)
    \/ GetFileMetadata(GateCredentials)
    \/ DownloadFile(GateCredentials)
    \/ RenameFile(GateCredentials, GateNames)
    \/ DeleteFile(GateCredentials)
    \/ MoveFile(GateCredentials)

SpecGate == Init /\ [][NextGate]_vars

\* ---- C9
\* What the ten operations answer to the caller "auth", over every argument.
Answers(auth) ==
    {create_folder(DB, auth, n, p, now) : n \in GateNames, p \in ParentArgs}
    \cup {upload_file(DB, auth, n, b, p, now) : n \in GateNames, b \in GateContents, p \in ParentArgs}
    \cup {rename_folder(DB, auth, i, n) : i \in IdArgs, n \in GateNames}
    \cup {rename_file(DB, auth, i, n) : i \in IdArgs, n \in GateNames}
    \cup {move_file(DB, auth, i, p) : i \in IdArgs, p \in ParentArgs}
    \cup UNION {{get_folder(DB, auth, i), delete_folder(DB, auth, i),
                 get_file_metadata(DB, auth, i), download_file(DB, auth, i),
                 delete_file(DB, auth, i)} : i \in IdArgs}

\* C9: every folder and file operation asked with an absent, invalid or
\* expired credential answers 401, whatever its arguments, and leaves the
\* users, folders and files as they were.
C9_Unauthorized ==
    \A auth \in Callers(Rejected) : \A result \in Answers(auth) :
        /\ result.response.status = 401
        /\ result.db = DB

\* --------------------------------------------------------- SpecRegister
\* POST /auth/register, one statement at a time, on the threads of the
\* server's pool: each request runs on its own connection, so the statements
\* of two requests interleave.
UNIQUE_email(rows, email) == \A u \in rows : u.email # email
UniqueError == "Database error: UNIQUE constraint failed: users.email"

\* The request ends: the thread keeps its outcome until it takes another.
Finish(w, status, detail, body) ==
    /\ regs' = [regs EXCEPT ![w] = [@ EXCEPT !.pc = "done", !.status = status]]
    /\ response' = [op |-> "register", status |-> status, detail |-> detail, body |-> body]

\* The request arrives; empty fields are refused, the password is hashed.
\* "taken" remembers whether the table held the e-mail on arrival.
RegisterValidate(w) ==
    /\ regs[w].pc \in {"idle", "done"}
    /\ sqlite_sequence.users
         + Cardinality({v \in Workers : regs[v].pc \in {"select", "insert"}}) < MaxUsers
    /\ \E email \in Emails, password \in Passwords, salt \in Salts :
          LET req == [pc |-> "select", email |-> email,
                      password_hash |-> hash_password(password, salt),
                      taken |-> ~UNIQUE_email(users, email), status |-> 0]
          IN  IF email = "" \/ password = <<>>
              THEN /\ regs' = [regs EXCEPT ![w] = [req EXCEPT !.pc = "done", !.status = 400]]
                   /\ response' = [op |-> "register", status |-> 400,
                                   detail |-> "Email and password are required",
                                   body |-> NoBody]
              ELSE /\ regs' = [regs EXCEPT ![w] = req]
                   /\ UNCHANGED response
    /\ UNCHANGED <<store, now, issued>>

\* SELECT id FROM users WHERE email = ?
RegisterSelect(w) ==
    /\ regs[w].pc = "select"
    /\ IF \E u \in users : u.email = regs[w].email
       THEN Finish(w, 400, "Email already registered", NoBody)
       ELSE /\ regs' = [regs EXCEPT ![w].pc = "insert"]
            /\ UNCHANGED response
    /\ UNCHANGED <<store, now, issued>>

\* INSERT INTO users (email, password_hash) and commit.
RegisterInsert(w) ==
    /\ regs[w].pc = "insert"
    /\ IF UNIQUE_email(users, regs[w].email)
       THEN /\ users' = users \cup {[id |-> sqlite_sequence.users + 1,
                                     email |-> regs[w].email,
                                     password_hash |-> regs[w].password_hash]}
            /\ sqlite_sequence' = [sqlite_sequence EXCEPT !.users = @ + 1]
            /\ regs' = [regs EXCEPT ![w].pc = "created"]
            /\ UNCHANGED response
       ELSE /\ Finish(w, 500, UniqueError, NoBody)
            /\ UNCHANGED <<users, sqlite_sequence>>
    /\ UNCHANGED <<folders, files, now, issued>>

\* SELECT id, email FROM users WHERE email = ? and the answer.
RegisterRespond(w) ==
    /\ regs[w].pc = "created"
    /\ LET rows == {u \in users : u.email = regs[w].email} IN
       IF rows # {}
       THEN \E row \in rows :
               Finish(w, 201, "", [id |-> row.id, email |-> row.email])
       ELSE Finish(w, 500, "Failed to create user", NoBody)
    /\ UNCHANGED <<store, now, issued>>

register(w) ==
    RegisterValidate(w) \/ RegisterSelect(w) \/ RegisterInsert(w) \/ RegisterRespond(w)

NextRegister == \E w \in Workers : register(w)

SpecRegister == Init /\ [][NextRegister]_vars

\* ---- C10
Registers == {w \in Workers : regs[w].pc = "done" /\ regs[w].status # 0
                              /\ regs[w].email # "" /\ regs[w].password_hash.key # <<>>}

\* C10: of two register requests with the same e-mail, one after the other
\* or overlapping, exactly one creates the user and the other is answered
\* 400; no register request is answered 500; no two users share an e-mail.
C10_RegisterOnce ==
    /\ \A w \in Registers : regs[w].status # 500
    /\ \A v, w \in Registers :
          (v # w /\ regs[v].email = regs[w].email /\ (~regs[v].taken \/ ~regs[w].taken))
              => {regs[v].status, regs[w].status} = {201, 400}
    /\ \A u, v \in users : u.email = v.email => u = v

\* ------------------------------------------------------------ SpecLogin
\* POST /auth/login, next to register: accounts are created while logins
\* with known and unknown e-mails, right and wrong passwords are answered.
Unauthorized == "Invalid email or password"

\* login that tells an unknown e-mail from a wrong password.
login_leaky(db, email, password, t) ==
    IF email = "" \/ password = <<>>
    THEN Respond("login", 400, "Email and password are required", NoBody, db)
    ELSE LET rows == {u \in db.users : u.email = email} IN
         IF rows = {}
         THEN Respond("login", 404, "User not found", NoBody, db)
         ELSE LET row == CHOOSE u \in rows : TRUE IN
              IF ~verify_password(password, row.password_hash)
              THEN Respond("login", 401, Unauthorized, NoBody, db)
              ELSE Respond("login", 200, "",
                           [access_token |-> create_access_token(row.id, row.email, None, t),
                            token_type |-> "bearer"], db)

login(db, email, password, t) ==
    IF email = "" \/ password = <<>>
    THEN Respond("login", 400, "Email and password are required", NoBody, db)
    ELSE LET rows == {u \in db.users : u.email = email} IN
         IF rows = {}
         THEN Respond("login", 401, Unauthorized, NoBody, db)
         ELSE LET row == CHOOSE u \in rows : TRUE IN
              IF ~verify_password(password, row.password_hash)
              THEN Respond("login", 401, Unauthorized, NoBody, db)
              ELSE Respond("login", 200, "",
                           [access_token |-> create_access_token(row.id, row.email, None, t),
                            token_type |-> "bearer"], db)

LoginEmails == Emails \cup {"b@x", "z@x"}
LoginPasswords == Passwords \cup {<<2>>, Long72 \o <<2>>, Long72}

LoginRequest ==
    \E email \in LoginEmails, password \in LoginPasswords :
        /\ response' = login(DB, email, password, now).response
        /\ UNCHANGED <<store, now, issued, regs>>

NextLogin == LoginRequest \/ \E w \in Workers : register(w)

SpecLogin == Init /\ [][NextLogin]_vars

\* ---- C11
\* The first 72 bytes of a password: what bcrypt hashes.
Hashed(password) ==
    SubSeq(password, 1, IF Len(password) < BCRYPT_MAX_BYTES
                        THEN Len(password) ELSE BCRYPT_MAX_BYTES)

\* C11: login with a non-empty e-mail and password answers one and the same
\* 401 (same detail, no body) for an e-mail no user has and for a user's
\* e-mail with a password that does not match; and it answers a token, which
\* verifies as the stored user's id and e-mail, exactly when the password
\* matches the stored hash.
C11_Login ==
    \A email \in LoginEmails \ {""}, password \in LoginPasswords \ {<<>>} :
        LET result == login(DB, email, password, now)
            match == {u \in users : u.email = email
                                    /\ u.password_hash.key = Hashed(password)}
        IN  /\ result.db = DB
            /\ match = {} => result.response =
                  [op |-> "login", status |-> 401, detail |-> Unauthorized, body |-> NoBody]
            /\ match # {} =>
                  /\ result.response.status = 200
                  /\ \A u \in match :
                        verify_token(result.response.body.access_token, now)
                            = Some([user_id |-> u.id, email |-> u.email])

\* A login has been answered with a token for the account registered with a
\* password longer than 72 bytes.
C11_Witness ==
    /\ response.op = "login"
    /\ response.status = 200
    /\ \E u \in users : /\ u.email = "c@x"
                        /\ Len(u.password_hash.key) = BCRYPT_MAX_BYTES
                        /\ verify_token(response.body.access_token, now)
                             = Some([user_id |-> u.id, email |-> u.email])

\* ---- C12
\* C12: verify_token returns None, and raises nothing, for a token with a
\* wrong signature, a malformed token, an expired token, a token without
\* user_id or email, and a correctly signed token whose user_id or email is
\* of the wrong type.
C12_VerifyNeverRaises == \A token \in Crafted : verify_token(token, now) = None

\* ----------------------------------------------------------- SpecUpload
\* Uploads of every kind of content text: well-formed base64, the empty
\* text, a lone digit, "=", characters outside the alphabet alone and amid
\* digits, a non-ASCII character.
UploadTexts ==
    {<<>>, OneByte, <<16, 20, 8, PAD>>, <<16>>, <<PAD>>, <<JUNK>>,
     <<JUNK, JUNK, JUNK, JUNK>>, <<16, 16, JUNK, PAD, PAD>>, <<NONASCII>>}
UploadNames == {"", "q1.pdf"}

NextUpload ==
    \/ UploadFile(UserOne, UploadNames, UploadTexts)
    \/ GetFileMetadata(UserOne)
    \/ DownloadFile(UserOne)
    \/ DeleteFile(UserOne)

SpecUpload == Init /\ [][NextUpload]_vars

\* ---- C13
\* A text in the transfer encoding (RFC 4648 base64): digits of the
\* alphabet in groups of four, the last group closed by up to two "=".
WellFormed(s) ==
    /\ Len(s) % 4 = 0
    /\ \A i \in 1..Len(s) :
          \/ s[i] < PAD
          \/ s[i] = PAD /\ i >= Len(s) - 1 /\ (i = Len(s) \/ s[i + 1] = PAD)

\* C13: upload_file answers 400 and stores no row when the name is empty,
\* the content text is empty, the content is not a valid base64 text, or the
\* content decodes to no bytes; so no stored file has an empty name or
\* content of length zero.
C13_UploadRejects ==
    /\ \A u \in users, n \in UploadNames, c \in UploadTexts :
          LET result == upload_file(DB, Login(u), n, c, None, now)
              decoded == b64decode(c)
          IN  (n = "" \/ c = <<>> \/ ~WellFormed(c) \/ (decoded.ok /\ decoded.value = <<>>))
                  => result.response.status = 400 /\ result.db = DB
    /\ \A f \in files : f.name # "" /\ f.content # <<>> /\ f.size > 0

\* ---- C14
\* C14: get_folder(id) asked by the owner lists exactly the folders whose
\* parent_folder_id is id and exactly the files whose parent_folder_id is id
\* (no deeper descendant, none missing), each of them a row of the caller.
C14_DirectChildren ==
    \A u \in users : LET auth == Login(u) IN
        \A f \in {g \in folders : g.user_id = u.id} :
            LET result == get_folder(DB, auth, f.id)
                below == {g \in folders : g.parent_folder_id = Some(f.id)}
                inside == {x \in files : x.parent_folder_id = Some(f.id)}
            IN  /\ result.response.status = 200
                /\ result.db = DB
                /\ result.response.body.id = f.id
                /\ result.response.body.subfolders = {FolderItem(g) : g \in below}
                /\ result.response.body.files = {FileItem(x) : x \in inside}
                /\ \A g \in below \cup inside : g.user_id = u.id

\* Folder 1 holds folder 2, which holds file 1; get_folder(1) has just
\* listed folder 2 and no file.
C14_Witness ==
    /\ \E g \in folders : g.id = 2 /\ g.parent_folder_id = Some(1)
    /\ \E x \in files : x.id = 1 /\ x.parent_folder_id = Some(2)
    /\ response.op = "get_folder"
    /\ response.status = 200
    /\ response.body.id = 1
    /\ {g.id : g \in response.body.subfolders} = {2}
    /\ response.body.files = {}

\* ----------------------------------------------------------- SpecRename
\* One user creating, renaming and deleting: renames carry an empty name and
\* a new name (for a file, one with another extension).
NextRename ==
    \/ CreateFolder(UserOne, {"docs"})
    \/ UploadFile(UserOne, {"q1.pdf"}, {OneByte})
    \/ RenameFolder(UserOne, {"", "reports"})
    \/ RenameFile(UserOne, {"", "notes.txt"})
    \/ DeleteFile(UserOne)

SpecRename == Init /\ [][NextRename]_vars

\* ---- C17
\* C17: a successful rename_folder or rename_file changes the name of the
\* addressed row and nothing else: the row keeps its id, owner, parent and
\* creation time, a file also its content, size and stored MIME type (the
\* new name may have another extension), and every other row is as it was;
\* a rename with an empty name answers 400 and changes nothing.
C17_RenameOnlyName ==
    \A u \in users : LET auth == Login(u) IN
        /\ \A f \in {g \in folders : g.user_id = u.id} :
              LET result == rename_folder(DB, auth, f.id, "reports")
                  empty == rename_folder(DB, auth, f.id, "")
              IN  /\ result.response.status = 200
                  /\ result.response.body = FolderItem([f EXCEPT !.name = "reports"])
                  /\ result.db = [DB EXCEPT !.folders = (folders \ {f})
                                               \cup {[f EXCEPT !.name = "reports"]}]
                  /\ empty.response.status = 400
                  /\ empty.db = DB
        /\ \A x \in {y \in files : y.user_id = u.id} :
              LET result == rename_file(DB, auth, x.id, "notes.txt")
                  empty == rename_file(DB, auth, x.id, "")
              IN  /\ result.response.status = 200
                  /\ result.response.body = FileMetadata([x EXCEPT !.name = "notes.txt"])
                  /\ result.db = [DB EXCEPT !.files = (files \ {x})
                                               \cup {[x EXCEPT !.name = "notes.txt"]}]
                  /\ empty.response.status = 400
                  /\ empty.db = DB

\* A file uploaded as a PDF has just been renamed to a .txt name and is
\* still stored, and answered, as application/pdf, next to a renamed folder.
C17_Witness ==
    /\ response.op = "rename_file"
    /\ response.status = 200
    /\ response.body.name = "notes.txt"
    /\ response.body.mime_type = "application/pdf"
    /\ \E x \in files : /\ x.id = response.body.id
                        /\ x.name = "notes.txt"
                        /\ x.mime_type = "application/pdf"
    /\ \E f \in folders : f.name = "reports"
    /\ \E f \in folders : f.name = "docs"

\* ---- C18
\* C18: a successful delete_file(id) removes the one file row with that id
\* and leaves every folder and every other file as it was; delete_file on an
\* id that is absent or not the caller's answers 404 and removes nothing.
C18_DeleteOneFile ==
    \A u \in users : LET auth == Login(u) IN
        \A i \in IdArgs \cup {AbsentId} :
            LET result == delete_file(DB, auth, i)
                own == {x \in files : x.id = i /\ x.user_id = u.id}
            IN  IF own # {}
                THEN /\ result.response.status = 204
                     /\ result.db = [DB EXCEPT !.files = files \ own]
                     /\ Cardinality(own) = 1
                ELSE /\ result.response.status = 404
                     /\ result.db = DB

\* File 1 has just been deleted; file 2, in the same folder, is still there.
C18_Witness ==
    /\ response.op = "delete_file"
    /\ response.status = 204
    /\ sqlite_sequence.files = 2
    /\ \E f \in folders, x \in files :
          /\ x.id = 2
          /\ x.parent_folder_id = Some(f.id)
          /\ files = {x}

\* ---- C20
\* Following parent_folder_id from folder f, for at most "fuel" steps, ends
\* at null.
RECURSIVE EndsAtNull(_, _)
EndsAtNull(f, fuel) ==
    \/ f.parent_folder_id = None
    \/ /\ fuel > 0
       /\ \E g \in folders : /\ g.id = f.parent_folder_id[1]
                             /\ EndsAtNull(g, fuel - 1)

\* C20: the folder parent relation is acyclic in every reachable state: the
\* parent of a folder is a folder with a smaller id (created earlier), the
\* chain of parents ends at null, no operation changes the parent of a
\* folder that exists, and a new folder never gets an id given out before.
C20_Acyclic ==
    /\ [](\A f \in folders :
            /\ f.parent_folder_id # None =>
                 /\ f.parent_folder_id[1] < f.id
                 /\ \E g \in folders : g.id = f.parent_folder_id[1]
            /\ EndsAtNull(f, Cardinality(folders)))
    /\ [][\A f \in folders : \A g \in folders' :
             g.id = f.id => g.parent_folder_id = f.parent_folder_id]_vars
    /\ [][\A g \in folders' :
             (\A f \in folders : f.id # g.id) => g.id > sqlite_sequence.folders]_vars

\* A chain of three folders: 3 in 2, 2 in 1, 1 at the root.
C20_Witness ==
    \E f \in folders, g \in folders, h \in folders :
        /\ f.id = 3 /\ f.parent_folder_id = Some(2)
        /\ g.id = 2 /\ g.parent_folder_id = Some(1)
        /\ h.id = 1 /\ h.parent_folder_id = None

\* ------------------------------------------------------------- SpecRace
\* Two requests of one user on two threads of the server's pool, one
\* statement at a time, each on the connection its own get_db() opens:
\* thread 1 runs rename_folder(P), or create_folder, upload_file or
\* move_file with parent P; thread 2 runs delete_folder(P).  Between races
\* the user creates folders and uploads files.
RaceNames == {"", "kept"}

\* A request as it arrives.  "before" is the database on arrival,
\* "committed" whether the request has committed a change of its own.
Request(op, user, id, name, parent_folder_id) ==
    [pc |-> "check", op |-> op, user |-> user, id |-> id, name |-> name,
     parent_folder_id |-> parent_folder_id, row_id |-> 0, committed |-> FALSE,
     status |-> 0, before |-> DB]

\* The input checks a handler makes before it opens its connection.
Validated(req) ==
    IF req.op \in {"rename_folder", "create_folder", "upload_file"} /\ req.name = ""
    THEN [req EXCEPT !.pc = "done", !.status = 400]
    ELSE req

ChildRequests(user, p) ==
    {Request("rename_folder", user, p, n, None) : n \in RaceNames}
    \cup {Request(op, user, 0, n, Some(p)) :
             op \in {"create_folder", "upload_file"}, n \in RaceNames}
    \cup {Request("move_file", user, i, "", Some(p)) : i \in IdArgs}

Quiet == \A w \in Workers : regs[w].pc = "idle"

RaceArrive ==
    /\ Quiet
    /\ sqlite_sequence.folders + sqlite_sequence.files < MaxRows
    /\ \E auth \in Callers(UserOne), p \in IdArgs :
          \E child \in ChildRequests(auth.user, p) :
             regs' = [regs EXCEPT ![1] = Validated(child),
                                  ![2] = Request("delete_folder", auth.user, p, "", None)]
    /\ UNCHANGED <<store, now, issued, response>>

\* The request of thread w ends with this answer.
Answer(w, status, detail) ==
    /\ regs' = [regs EXCEPT ![w].pc = "done", ![w].status = status]
    /\ response' = [op |-> regs[w].op, status |-> status, detail |-> detail,
                    body |-> NoBody]

\* The first SELECT of the handler: the row itself (rename_folder,
\* delete_folder, move_file) or the parent (create_folder, upload_file,
\* skipped when the parent id is falsy).
RaceCheck(w) ==
    LET req == regs[w] IN
    /\ req.pc = "check"
    /\ CASE req.op \in {"rename_folder", "delete_folder"} ->
              IF select_folder(DB, req.id, req.user.user_id) = {}
              THEN Answer(w, 404, "Folder not found")
              ELSE regs' = [regs EXCEPT ![w].pc = "write"] /\ UNCHANGED response
         [] req.op = "move_file" ->
              IF select_file(DB, req.id, req.user.user_id) = {}
              THEN Answer(w, 404, "File not found")
              ELSE regs' = [regs EXCEPT ![w].pc = "target"] /\ UNCHANGED response
         [] OTHER ->
              IF /\ req.parent_folder_id # None /\ req.parent_folder_id[1] # 0
                 /\ select_folder(DB, req.parent_folder_id[1], req.user.user_id) = {}
              THEN Answer(w, 404, "Parent folder not found")
              ELSE regs' = [regs EXCEPT ![w].pc = "write"] /\ UNCHANGED response
    /\ UNCHANGED <<store, now, issued>>

\* The second SELECT of move_file: the target folder.
RaceCheckTarget(w) ==
    LET req == regs[w] IN
    /\ req.pc = "target"
    /\ IF /\ req.parent_folder_id # None
          /\ select_folder(DB, req.parent_folder_id[1], req.user.user_id) = {}
       THEN Answer(w, 404, "Target folder not found")
       ELSE regs' = [regs EXCEPT ![w].pc = "write"] /\ UNCHANGED response
    /\ UNCHANGED <<store, now, issued>>

\* What the INSERT, UPDATE or DELETE of the request makes of the database;
\* an UPDATE whose row is gone changes no row and raises nothing.
Written(req) ==
    CASE req.op = "rename_folder" ->
            [DB EXCEPT !.folders = {IF f.id = req.id THEN [f EXCEPT !.name = req.name] ELSE f
                                      : f \in folders}]
      [] req.op = "delete_folder" -> delete_from_folders(DB, req.id)
      [] req.op = "move_file" ->
            [DB EXCEPT !.files = update_files_parent(files, req.id, req.parent_folder_id)]
      [] req.op = "create_folder" ->
            [DB EXCEPT !.folders = @ \cup {[id |-> sqlite_sequence.folders + 1,
                                            name |-> req.name,
                                            user_id |-> req.user.user_id,
                                            parent_folder_id |-> req.parent_folder_id,
                                            created_at |-> timegm(now)]},
                       !.sqlite_sequence.folders = @ + 1]
      [] OTHER ->
            LET decoded_content == b64decode(OneByte).value IN
            [DB EXCEPT !.files = @ \cup {[id |-> sqlite_sequence.files + 1,
                                          name |-> req.name,
                                          content |-> decoded_content,
                                          size |-> Len(decoded_content),
                                          mime_type |-> detect_mime_type(req.name),
                                          user_id |-> req.user.user_id,
                                          parent_folder_id |-> req.parent_folder_id,
                                          created_at |-> timegm(now)]},
                       !.sqlite_sequence.files = @ + 1]

\* The write and its commit.  The statement checks the foreign key of the
\* row it inserts or updates.
RaceWrite(w) ==
    LET req == regs[w]
        touches == \/ req.op \in {"create_folder", "upload_file"}
                   \/ req.op = "move_file" /\ \E x \in files : x.id = req.id
    IN
    /\ req.pc = "write"
    /\ IF touches /\ ~fk_holds(DB, req.user.user_id, req.parent_folder_id)
       THEN /\ Answer(w, 500, DatabaseError)
            /\ UNCHANGED store
       ELSE LET new == Written(req) IN
            /\ users' = new.users
            /\ folders' = new.folders
            /\ files' = new.files
            /\ sqlite_sequence' = new.sqlite_sequence
            /\ IF req.op = "delete_folder"
               THEN /\ regs' = [regs EXCEPT ![w].pc = "done", ![w].status = 204,
                                            ![w].committed = (new # DB)]
                    /\ response' = [op |-> req.op, status |-> 204, detail |-> "",
                                    body |-> NoBody]
               ELSE /\ regs' = [regs EXCEPT
                           ![w].pc = "reread", ![w].committed = (new # DB),
                           ![w].row_id =
                              CASE req.op = "create_folder" -> new.sqlite_sequence.folders
                                [] req.op = "upload_file" -> new.sqlite_sequence.files
                                [] OTHER -> req.id]
                    /\ UNCHANGED response
    /\ UNCHANGED <<now, issued>>

\* The SELECT of the written row by its id, and the answer.
RaceReread(w) ==
    LET req == regs[w]
        rows == IF req.op \in {"rename_folder", "create_folder"}
                THEN {FolderItem(f) : f \in {g \in folders : g.id = req.row_id}}
                ELSE {FileMetadata(x) : x \in {y \in files : y.id = req.row_id}}
    IN
    /\ req.pc = "reread"
    /\ IF rows # {}
       THEN /\ regs' = [regs EXCEPT ![w].pc = "done",
                           ![w].status = IF req.op \in {"create_folder", "upload_file"}
                                         THEN 201 ELSE 200]
            /\ \E row \in rows :
                  response' = [op |-> req.op,
                               status |-> IF req.op \in {"create_folder", "upload_file"}
                                          THEN 201 ELSE 200,
                               detail |-> "", body |-> row]
       ELSE Answer(w, 500, CASE req.op = "rename_folder" -> "Failed to update folder"
                             [] req.op = "create_folder" -> "Failed to create folder"
                             [] req.op = "upload_file" -> "Failed to upload file"
                             [] OTHER -> "Failed to move file")
    /\ UNCHANGED <<store, now, issued>>

\* Both requests are answered; the threads are free again.
RaceReturn ==
    /\ \A w \in Workers : regs[w].pc = "done"
    /\ regs' = [w \in Workers |-> Idle]
    /\ UNCHANGED <<store, now, issued, response>>

NextRace ==
    \/ Quiet /\ CreateFolder(UserOne, {"docs"})
    \/ Quiet /\ UploadFile(UserOne, {"q1.pdf"}, {OneByte})
    \/ RaceArrive
    \/ \E w \in Workers : RaceCheck(w)
    \/ \E w \in Workers : RaceCheckTarget(w)
    \/ \E w \in Workers : RaceWrite(w)
    \/ \E w \in Workers : RaceReread(w)
    \/ RaceReturn

SpecRace == Init /\ [][NextRace]_vars

Raced == \A w \in Workers : regs[w].pc = "done"
Caller(w) == [ok |-> TRUE, user |-> regs[w].user]

\* ---- C15
\* C15: rename_folder(id) and delete_folder(id) of the owner, run at the
\* same time on one folder and interleaved in any way, each end in success
\* or 404, never 500, and leave the store that the two operations leave when
\* run one after the other in one of the two orders.
C15_RenameDeleteSerial ==
    (Raced /\ regs[1].op = "rename_folder" /\ regs[1].name # "") =>
        LET start == regs[1].before
            id == regs[1].id
            renamed == rename_folder(start, Caller(1), id, regs[1].name).db
            deleted == delete_folder(start, Caller(2), id).db
        IN  /\ regs[1].status \in {200, 404}
            /\ regs[2].status \in {204, 404}
            /\ DB \in {delete_folder(renamed, Caller(2), id).db,
                       rename_folder(deleted, Caller(1), id, regs[1].name).db}

\* ---- C16
\* C16: a create, rename, move, upload or delete request that is answered
\* with an error has not changed the tables: run on its own it leaves the
\* database it found, and under any interleaving no request is answered
\* with an error after it has committed a write.
C16_ErrorsWriteNothing ==
    /\ \A auth \in Callers(GateCredentials) : \A result \in Answers(auth) :
          result.response.status >= 400 => result.db = DB
    /\ \A w \in Workers :
          (regs[w].pc = "done" /\ regs[w].status >= 400) => ~regs[w].committed

\* ---- C19
\* C19: when create_folder, upload_file or move_file with parent P runs at
\* the same time as a delete_folder(P) of the same owner that deletes P, no
\* folder and no file with parent P is left, and the child request either
\* was answered 404 or succeeded, its row going with the subtree of P.
C19_NoOrphanOfDeletedParent ==
    (/\ Raced
     /\ regs[1].op \in {"create_folder", "upload_file", "move_file"}
     /\ regs[1].status # 400
     /\ regs[2].status = 204) =>
        LET P == Some(regs[2].id) IN
        /\ \A f \in folders : f.parent_folder_id # P
        /\ \A x \in files : x.parent_folder_id # P
        /\ \/ regs[1].status = 404
           \/ /\ regs[1].status \in {200, 201}
              /\ regs[1].op = "create_folder" => \A f \in folders : f.id # regs[1].row_id
              /\ regs[1].op # "create_folder" => \A x \in files : x.id # regs[1].row_id

====
